---- MODULE Spec2Model ----
(***************************************************************************)
(* light-heap: an intrusive, pointer-linked binary min-heap.               *)
(*                                                                         *)
(* The state is the heap_root {node, count}, the three link fields of      *)
(* every heap_node, and the payload (key) of the embedding record.  The    *)
(* inline entry points of src/heap.h (heap_link, heap_insert_node,         *)
(* heap_insert, heap_delete) are translated from the header.  The extern   *)
(* functions the header only declares (heap_fixup, heap_erase,             *)
(* heap_remove, heap_parent, heap_find, heap_level_first/next) are         *)
(* modelled from the design document (spec.md, sections 4.1 - 4.5).        *)
(***************************************************************************)
EXTENDS Integers, Sequences, FiniteSets

\* ------------------------------------------------------------------ bounds
MaxNodes == 5
MaxKey == 2
\* width in bits of the traversal cursor (unsigned long), scaled down
CursorBits == 4

\* --------------------------------------------------------------- constants
NULL == 0
POISON_OFFSET == 0
POISON_HPNODE1 == POISON_OFFSET + 16
POISON_HPNODE2 == POISON_OFFSET + 32
POISON_HPNODE3 == POISON_OFFSET + 48
\* content of a link field of a record that was never linked (malloc'ed)
Uninit == 255

Nodes == 1..MaxNodes
Keys == 1..MaxKey
NoKey == 0

VARIABLES
    root,      \* struct heap_root: [node, count]
    links,     \* struct heap_node of every record: [parent, left, right]
    key,       \* payload of the embedding record (num / data)
    pc,        \* position inside the running operation
    cur,       \* node the running sift loop is moving
    victim,    \* node heap_delete was called with
    swaps,     \* parent/child swaps done by the running operation
    index,     \* the caller's traversal cursor (unsigned long index)
    pos,       \* the caller's loop variable (struct heap_node *hpnode)
    trav,      \* what the caller's loops and lookups have observed
    other      \* a second struct heap_root of the caller, over the same records

vars == <<root, links, key, pc, cur, victim, swaps, index, pos, trav, other>>

\* A heap as a value: the root, every node's links and the payloads the
\* comparator reads
Heap(r, l, k) == [root |-> r, links |-> l, key |-> k]
H == Heap(root, links, key)

\* ------------------------------------------------------------- comparator
\* the comparator called with its arguments exchanged
heap_cmp_swapped(h, a, b) == IF h.key[b] < h.key[a] THEN 0 - 1 ELSE 1

\* the comparator with <= in place of <
heap_cmp_le(h, a, b) == IF h.key[a] <= h.key[b] THEN 0 - 1 ELSE 1

\* heap_test_cmp / bench_cmp: a < b ? -1 : 1  (never 0)
heap_cmp(h, a, b) == IF h.key[a] < h.key[b] THEN 0 - 1 ELSE 1

\* ---------------------------------------------------- Shape/Index Navigator
\* fls(): 1-based position of the highest set bit, 0 for 0
RECURSIVE fls(_)
fls(x) == IF x = 0 THEN 0 ELSE 1 + fls(x \div 2)

Pow2(i) == 2 ^ i

\* bit i (0-based) of x
BitAt(x, i) == (x \div Pow2(i)) % 2

Child(h, n, b) == IF b = 0 THEN h.links[n].left ELSE h.links[n].right

\* descend from node n along bits i-1 .. lo of rank (msb first)
RECURSIVE Descend(_, _, _, _, _)
Descend(h, n, rank, i, lo) ==
    IF i <= lo THEN n
    ELSE Descend(h, Child(h, n, BitAt(rank, i - 1)), rank, i - 1, lo)

\* heap_find without the test for rank 0
heap_find_nozero(h, idx) ==
    IF idx > h.root.count \/ h.root.node = NULL THEN NULL
    ELSE Descend(h, h.root.node, idx, fls(idx) - 1, 0)

\* heap_find: the node at level-order rank `idx`, NULL when out of range
heap_find(h, idx) ==
    IF idx = 0 \/ idx > h.root.count \/ h.root.node = NULL THEN NULL
    ELSE Descend(h, h.root.node, idx, fls(idx) - 1, 0)

\* heap_parent: the parent and the link (0: &root->node, 1: &parent->left,
\* 2: &parent->right) of rank count + 1
heap_parent(h) ==
    LET rank == h.root.count + 1 IN
    IF h.root.node = NULL THEN [parent |-> NULL, link |-> 0]
    ELSE [parent |-> Descend(h, h.root.node, rank, fls(rank) - 1, 1),
          link |-> 1 + BitAt(rank, 0)]

\* ------------------------------------------------------------ link helpers
SetField(h, n, f, v) ==
    [h EXCEPT !.links[n] = [@ EXCEPT ![f] = v]]

\* n->parent = v, when n is a node
SetParentOf(h, n, v) ==
    IF n = NULL THEN h ELSE SetField(h, n, "parent", v)

\* *link = v, link being 0: &root->node, 1: &parent->left, 2: &parent->right
SetLink(h, parent, link, v) ==
    IF link = 0 THEN [h EXCEPT !.root.node = v]
    ELSE IF link = 1 THEN SetField(h, parent, "left", v)
    ELSE SetField(h, parent, "right", v)

\* the link that holds n: of its parent, or of the root
LinkOf(h, n) ==
    LET p == h.links[n].parent IN
    IF p = NULL THEN 0
    ELSE IF h.links[p].left = n THEN 1 ELSE 2

\* heap_link storing the node's own address as its parent
heap_link_selfparent(h, parent, link, node) ==
    LET h1 == SetLink(h, parent, link, node)
        h2 == [h1 EXCEPT !.links[node] =
                  [parent |-> node, left |-> NULL, right |-> NULL]]
    IN [h2 EXCEPT !.root.count = @ + 1]

\* heap_link without its last line, root->count++
heap_link_nocount(h, parent, link, node) ==
    LET h1 == SetLink(h, parent, link, node)
    IN [h1 EXCEPT !.links[node] =
           [parent |-> parent, left |-> NULL, right |-> NULL]]

\* heap_link with node->left = NULL alone for its third line
heap_link_keepright(h, parent, link, node) ==
    LET h1 == SetLink(h, parent, link, node)
        h2 == SetField(SetField(h1, node, "parent", parent),
                       node, "left", NULL)
    IN [h2 EXCEPT !.root.count = @ + 1]

\* heap_link without its line node->left = node->right = NULL
heap_link_keepchildren(h, parent, link, node) ==
    LET h1 == SetLink(h, parent, link, node)
        h2 == SetField(h1, node, "parent", parent)
    IN [h2 EXCEPT !.root.count = @ + 1]

\* heap_link storing NULL where the parent belongs
heap_link_nullparent(h, parent, link, node) ==
    LET h1 == SetLink(h, parent, link, node)
        h2 == [h1 EXCEPT !.links[node] =
                  [parent |-> NULL, left |-> NULL, right |-> NULL]]
    IN [h2 EXCEPT !.root.count = @ + 1]

\* heap_link without its line *link = node
heap_link_noslot(h, parent, link, node) ==
    LET h2 == [h EXCEPT !.links[node] =
                  [parent |-> parent, left |-> NULL, right |-> NULL]]
    IN [h2 EXCEPT !.root.count = @ + 1]

\* heap_link: *link = node; node->parent = parent;
\* node->left = node->right = NULL; root->count++
heap_link(h, parent, link, node) ==
    LET h1 == SetLink(h, parent, link, node)
        h2 == [h1 EXCEPT !.links[node] =
                  [parent |-> parent, left |-> NULL, right |-> NULL]]
    IN [h2 EXCEPT !.root.count = @ + 1]

\* parent_swap: exchange the slots of `parent` and its child `node`: the
\* grandparent's child pointer, the pair's mutual pointers and the displaced
\* subtrees' pointers
parent_swap(h, parent, node) ==
    LET gparent == h.links[parent].parent
        glink   == LinkOf(h, parent)
        isleft  == h.links[parent].left = node
        sibling == IF isleft THEN h.links[parent].right
                             ELSE h.links[parent].left
        nl      == h.links[node].left
        nr      == h.links[node].right
        h1 == SetLink(h, gparent, glink, node)
        h2 == [h1 EXCEPT
                 !.links[node] =
                     [parent |-> gparent,
                      left   |-> IF isleft THEN parent ELSE sibling,
                      right  |-> IF isleft THEN sibling ELSE parent],
                 !.links[parent] =
                     [parent |-> node, left |-> nl, right |-> nr]]
        h3 == SetParentOf(h2, sibling, node)
        h4 == SetParentOf(h3, nl, parent)
    IN SetParentOf(h4, nr, parent)

\* -------------------------------------------------- Heap-Order Maintainer
\* heap_fixup, one turn of the loop: the node moves up while it is strictly
\* less than its parent
FixupMoves(h, node) ==
    /\ h.links[node].parent # NULL
    /\ heap_cmp(h, node, h.links[node].parent) < 0

FixupSwap(h, node) == parent_swap(h, h.links[node].parent, node)

\* heap_erase, one turn of the sift-down loop: the smaller child, the left
\* one checked first, when it is strictly less than the node
Successor(h, node) ==
    LET l  == h.links[node].left
        r  == h.links[node].right
        s1 == IF l # NULL /\ heap_cmp(h, l, node) < 0 THEN l ELSE node
    IN IF r # NULL /\ heap_cmp(h, r, s1) < 0 THEN r ELSE s1

EraseMoves(h, node) == Successor(h, node) # node

EraseSwap(h, node) == parent_swap(h, node, Successor(h, node))

\* heap_fixup: the whole sift-up loop
RECURSIVE heap_fixup(_, _)
heap_fixup(h, node) ==
    IF FixupMoves(h, node) THEN heap_fixup(FixupSwap(h, node), node) ELSE h

\* the sift-down loop of heap_erase
RECURSIVE SiftDown(_, _)
SiftDown(h, node) ==
    IF EraseMoves(h, node) THEN SiftDown(EraseSwap(h, node), node) ELSE h

\* heap_erase: rebalance the node that was promoted into a slot.  heap_delete
\* (heap.h:229-230) calls nothing else on the promoted node, and the design
\* document (4.3) has both directions checked after a promotion: the node
\* sinks below a strictly smaller child, then rises above a strictly
\* greater parent
heap_erase(h, node) == heap_fixup(SiftDown(h, node), node)

\* ---------------------------------------------------------- Removal Engine
\* heap_remove leaving the link that holds the last node as it is
heap_remove_nounlink(h, node) ==
    LET successor == heap_find(h, h.root.count)
        h2 == [h EXCEPT !.root.count = @ - 1]
    IN  IF successor = node THEN [heap |-> h2, rebalance |-> NULL]
        ELSE
          LET np == h2.links[node].parent
              nl == h2.links[node].left
              nr == h2.links[node].right
              h3 == SetLink(h2, np, LinkOf(h2, node), successor)
              h4 == [h3 EXCEPT !.links[successor] =
                        [parent |-> np, left |-> nl, right |-> nr]]
              h5 == SetParentOf(h4, nl, successor)
              h6 == SetParentOf(h5, nr, successor)
          IN [heap |-> h6, rebalance |-> successor]

\* heap_remove: detach the last node in level order (rank count); when it is
\* not `node` itself, move it into node's slot and return it for rebalancing
heap_remove(h, node) ==
    LET successor == heap_find(h, h.root.count)
        h1 == SetLink(h, h.links[successor].parent, LinkOf(h, successor), NULL)
        h2 == [h1 EXCEPT !.root.count = @ - 1]
    IN  IF successor = node THEN [heap |-> h2, rebalance |-> NULL]
        ELSE
          LET np == h2.links[node].parent
              nl == h2.links[node].left
              nr == h2.links[node].right
              h3 == SetLink(h2, np, LinkOf(h2, node), successor)
              h4 == [h3 EXCEPT !.links[successor] =
                        [parent |-> np, left |-> nl, right |-> nr]]
              h5 == SetParentOf(h4, nl, successor)
              h6 == SetParentOf(h5, nr, successor)
          IN [heap |-> h6, rebalance |-> successor]

\* the three stores of heap_delete writing one and the same sentinel
Poison_same(h, node) ==
    [h EXCEPT !.links[node] = [parent |-> POISON_HPNODE1,
                               left   |-> POISON_HPNODE1,
                               right  |-> POISON_HPNODE1]]

\* heap_delete, lines 232-234: the node's links become the three sentinels
Poison(h, node) ==
    [h EXCEPT !.links[node] = [parent |-> POISON_HPNODE3,
                               left   |-> POISON_HPNODE1,
                               right  |-> POISON_HPNODE2]]

\* -------------------------------------------------------------- Traversal
\* heap_level_first: the cursor becomes 1, the root or NULL is returned
heap_level_first(h) == [index |-> 1, node |-> heap_find(h, 1)]

\* ++*index on an unsigned long
CursorInc(idx) == (idx + 1) % Pow2(CursorBits)

\* heap_level_next resolving the cursor before it increments it
heap_level_next_postinc(h, idx) ==
    [index |-> CursorInc(idx), node |-> heap_find(h, idx)]

\* heap_level_next: the cursor is incremented and its rank resolved again
heap_level_next(h, idx) ==
    [index |-> CursorInc(idx), node |-> heap_find(h, CursorInc(idx))]

\* the loop `for (; pos; pos = heap_level_next(root, index))` whose body
\* leaves (break) when it has run `brk` times; brk = 0: it never leaves.
\* Yields the nodes the body saw and the loop variables at the exit.
RECURSIVE LoopFrom(_, _, _, _, _)
LoopFrom(h, p, idx, seen, brk) ==
    IF p = NULL THEN [seen |-> seen, pos |-> p, index |-> idx]
    ELSE IF Len(seen) + 1 = brk
         THEN [seen |-> Append(seen, p), pos |-> p, index |-> idx]
         ELSE LET nx == heap_level_next(h, idx)
              IN LoopFrom(h, nx.node, nx.index, Append(seen, p), brk)

\* heap_for_each whose first node comes from heap_level_next
heap_for_each_skip(h, brk) ==
    LET f == heap_level_next(h, heap_level_first(h).index)
    IN LoopFrom(h, f.node, f.index, <<>>, brk)

\* heap_for_each(pos, index, root), with the body's break
heap_for_each(h, brk) ==
    LET f == heap_level_first(h)
    IN LoopFrom(h, f.node, f.index, <<>>, brk)

\* heap_for_each_from(pos, index, root)
heap_for_each_from(h, p, idx) == LoopFrom(h, p, idx, <<>>, 0)

\* heap_for_each_continue that resolves the cursor without advancing it
heap_for_each_continue_stay(h, idx) ==
    LoopFrom(h, heap_find(h, idx), idx, <<>>, 0)

\* heap_for_each_continue(pos, index, root)
heap_for_each_continue(h, idx) ==
    LET nx == heap_level_next(h, idx)
    IN LoopFrom(h, nx.node, nx.index, <<>>, 0)

\* ----------------------------------------------------------- entry points
\* heap_insert_node without its call of heap_fixup
heap_insert_node_nofixup(h, parent, link, node) ==
    heap_link(h, parent, link, node)

\* heap_insert_node: heap_link, then heap_fixup on the node
heap_insert_node(h, parent, link, node) ==
    heap_fixup(heap_link(h, parent, link, node), node)

\* heap_insert passing &parent->left whatever link heap_parent returned
heap_insert_left(h, node) ==
    LET slot == heap_parent(h)
    IN heap_insert_node(h, slot.parent,
                        IF slot.link = 0 THEN 0 ELSE 1, node)

\* heap_insert: find the slot of rank count + 1 and insert there
heap_insert(h, node) ==
    LET slot == heap_parent(h)
    IN heap_insert_node(h, slot.parent, slot.link, node)

\* heap_delete returning at once, as on a failed heap_debug_delete_check
heap_delete_rejected(h, node) == h

\* heap_delete without its call of heap_erase
heap_delete_noerase(h, node) ==
    Poison(heap_remove(h, node).heap, node)

\* heap_delete: heap_remove, heap_erase on the node it returns, then the
\* sentinels
heap_delete(h, node) ==
    LET res == heap_remove(h, node)
        h1  == IF res.rebalance # NULL
               THEN heap_erase(res.heap, res.rebalance)
               ELSE res.heap
    IN Poison(h1, node)

\* ------------------------------------------------ built with DEBUG_HEAP
\* heap_link, lines 175-178: ok is the verdict of heap_debug_link_check
heap_link_debug(h, parent, link, node, ok) ==
    IF ~ok THEN h ELSE heap_link(h, parent, link, node)

\* what a read of a link field yields: its content, or, for a record that
\* was allocated and never written (Uninit), NULL or something that is not
\* NULL
ReadOf(v) == IF v = Uninit THEN {NULL, Uninit} ELSE {v}

\* heap_insert_node, lines 197-198, over the checked heap_link: heap_fixup
\* is called whatever heap_link did.  On a record heap_link left alone its
\* loop reads the parent field as p: it ends at once on NULL, and otherwise
\* follows a pointer nothing has set (fault)
heap_insert_node_debug(h, parent, link, node, ok, p) ==
    LET h1 == heap_link_debug(h, parent, link, node, ok)
    IN IF ok THEN [heap |-> heap_fixup(h1, node), fault |-> FALSE]
       ELSE [heap |-> h1, fault |-> p # NULL]

\* heap_delete, lines 224-227: ok is the verdict of heap_debug_delete_check
heap_delete_debug(h, node, ok) ==
    IF ~ok THEN h ELSE heap_delete(h, node)

\* ------------------------------------------------------------------ state
NoTrav == [kind |-> "none"]

Init ==
    /\ root = [node |-> NULL, count |-> 0]
    /\ links = [n \in Nodes |->
                  [parent |-> Uninit, left |-> Uninit, right |-> Uninit]]
    /\ key = [n \in Nodes |-> NoKey]
    /\ pc = "idle"
    /\ cur = NULL
    /\ victim = NULL
    /\ swaps = 0
    /\ index = 0
    /\ pos = NULL
    /\ trav = NoTrav
    /\ other = [node |-> NULL, count |-> 0]

\* the caller's view: the record is in the heap
Linked(n) == key[n] # NoKey

\* the caller fills the record's payload
WithKey(h, node, k) == [h EXCEPT !.key[node] = k]

Becomes(h) ==
    /\ root' = h.root
    /\ links' = h.links
    /\ key' = h.key

\* a call of heap_insert(root, node, cmp) on a record with payload k
Insert ==
    /\ pc = "idle"
    /\ trav = NoTrav
    /\ \E node \in Nodes : \E k \in Keys :
         /\ ~Linked(node)
         /\ Becomes(heap_insert(WithKey(H, node, k), node))
    /\ UNCHANGED <<pc, cur, victim, swaps, index, pos, trav, other>>

\* a call of heap_delete(root, node, cmp) on a record of this heap; the
\* caller's payload is dead afterwards
Delete ==
    /\ pc = "idle"
    /\ trav = NoTrav
    /\ \E node \in Nodes :
         /\ Linked(node)
         /\ Becomes(WithKey(heap_delete(H, node), node, NoKey))
    /\ UNCHANGED <<pc, cur, victim, swaps, index, pos, trav, other>>

Next == Insert \/ Delete

Spec == Init /\ [][Next]_vars

\* --------------------------------------------- the caller's loops (selftest)
\* heap_test_testing, lines 43-63: heap_for_each left by a break after brk
\* nodes, the pair (hpnode, index) saved, heap_for_each_continue run from
\* it, the pair restored and heap_for_each_from run from it.  `each` is an
\* uninterrupted heap_for_each over the same heap.
Traverse ==
    /\ pc = "idle"
    /\ trav = NoTrav
    /\ \E brk \in 1..MaxNodes :
         /\ brk <= root.count \/ brk = 1
         /\ LET part == heap_for_each(H, brk)
                cont == heap_for_each_continue(H, part.index)
            IN /\ pos' = part.pos
               /\ index' = part.index
               /\ trav' = [kind |-> "each",
                           part |-> part.seen,
                           each |-> heap_for_each(H, 0).seen,
                           cont |-> cont.seen,
                           from |-> heap_for_each_from(H, part.pos,
                                                       part.index).seen,
                           last |-> cont.pos]
    /\ UNCHANGED <<root, links, key, pc, cur, victim, swaps, other>>

\* a direct lookup heap_find(root, rank)
Find ==
    /\ pc = "idle"
    /\ trav = NoTrav
    /\ \E rank \in 0..(MaxNodes + 1) :
         /\ index' = rank
         /\ pos' = heap_find(H, rank)
         /\ trav' = [kind |-> "find"]
    /\ UNCHANGED <<root, links, key, pc, cur, victim, swaps, other>>

\* the caller's locals go out of scope
Return ==
    /\ trav # NoTrav
    /\ trav' = NoTrav
    /\ index' = 0
    /\ pos' = NULL
    /\ UNCHANGED <<root, links, key, pc, cur, victim, swaps, other>>

NextTrav == Insert \/ Delete \/ Traverse \/ Return

SpecTrav == Init /\ [][NextTrav]_vars

\* a call of heap_level_first(root, &index)
LevelFirst ==
    /\ pc = "idle"
    /\ trav = NoTrav
    /\ LET f == heap_level_first(H)
       IN /\ index' = f.index
          /\ pos' = f.node
          /\ trav' = [kind |-> "level", call |-> "first", cursor |-> index,
                      null |-> f.node = NULL, wrapped |-> FALSE]
    /\ UNCHANGED <<root, links, key, pc, cur, victim, swaps, other>>

\* a call of heap_level_next(root, &index), the caller's cursor holding
\* any value c (selftest, line 79: the cursor is a variable of the caller)
LevelNextAt ==
    /\ pc = "idle"
    /\ trav = NoTrav
    /\ \E c \in 0..(Pow2(CursorBits) - 1) :
         LET nx == heap_level_next(H, c)
         IN /\ index' = nx.index
            /\ pos' = nx.node
            /\ trav' = [kind |-> "level", call |-> "next", cursor |-> c,
                        null |-> nx.node = NULL, wrapped |-> nx.index = 0]
    /\ UNCHANGED <<root, links, key, pc, cur, victim, swaps, other>>

\* a further call of heap_level_next(root, &index) on the same cursor
LevelNext ==
    /\ pc = "idle"
    /\ trav # NoTrav
    /\ trav.kind = "level"
    /\ LET nx == heap_level_next(H, index)
       IN /\ index' = nx.index
          /\ pos' = nx.node
          /\ trav' = [kind |-> "level", call |-> "next", cursor |-> index,
                      null |-> trav.null \/ nx.node = NULL,
                      wrapped |-> trav.wrapped \/ nx.index = 0]
    /\ UNCHANGED <<root, links, key, pc, cur, victim, swaps, other>>

NextCursor ==
    Insert \/ Delete \/ LevelFirst \/ LevelNextAt \/ LevelNext \/ Return

SpecCursor == Init /\ [][NextCursor]_vars

NextFind == Insert \/ Delete \/ Find \/ Return

SpecFind == Init /\ [][NextFind]_vars

\* ------------------------------------------------ two roots, records reused
\* the caller's second root as a heap over the same records
OtherHeap == Heap(other, links, key)

\* heap_delete(&root, node, cmp) on a record of root; the caller keeps the
\* handle (victim) to insert the record again
DeleteRoot ==
    /\ pc = "idle"
    /\ trav = NoTrav
    /\ \E node \in Nodes :
         /\ Linked(node)
         /\ \E r \in 1..root.count : heap_find(H, r) = node
         /\ Becomes(WithKey(heap_delete(H, node), node, NoKey))
         /\ victim' = node
    /\ UNCHANGED <<pc, cur, swaps, index, pos, trav, other>>

\* heap_insert(&other, node, cmp) on a record that is in neither root
InsertOther ==
    /\ pc = "idle"
    /\ trav = NoTrav
    /\ \E node \in Nodes : \E k \in Keys :
         /\ ~Linked(node)
         /\ LET h == heap_insert(WithKey(OtherHeap, node, k), node)
            IN /\ other' = h.root
               /\ links' = h.links
               /\ key' = h.key
    /\ UNCHANGED <<root, pc, cur, victim, swaps, index, pos, trav>>

\* heap_delete(&other, node, cmp) on a record of other
DeleteOther ==
    /\ pc = "idle"
    /\ trav = NoTrav
    /\ \E node \in Nodes :
         /\ Linked(node)
         /\ \E r \in 1..other.count : heap_find(OtherHeap, r) = node
         /\ LET h == WithKey(heap_delete(OtherHeap, node), node, NoKey)
            IN /\ other' = h.root
               /\ links' = h.links
               /\ key' = h.key
    /\ UNCHANGED <<root, pc, cur, victim, swaps, index, pos, trav>>

NextReuse == Insert \/ DeleteRoot \/ InsertOther \/ DeleteOther

SpecReuse == Init /\ [][NextReuse]_vars

\* ------------------------------------ the operations, the hooks rejecting
\* heap_insert(root, node, cmp) whose heap_debug_link_check returns false;
\* the record stays outside the heap
InsertRejected ==
    /\ pc = "idle"
    /\ trav = NoTrav
    /\ \E node \in Nodes :
         /\ ~Linked(node)
         /\ \E p \in ReadOf(links[node].parent) :
              LET slot == heap_parent(H)
                  res  == heap_insert_node_debug(H, slot.parent, slot.link,
                                                 node, FALSE, p)
              IN /\ Becomes(res.heap)
                 /\ pc' = IF res.fault THEN "undefined" ELSE "idle"
    /\ UNCHANGED <<cur, victim, swaps, index, pos, trav, other>>

\* heap_delete(root, node, cmp) whose heap_debug_delete_check returns false
DeleteRejected ==
    /\ pc = "idle"
    /\ trav = NoTrav
    /\ \E node \in Nodes :
         /\ Linked(node)
         /\ Becomes(heap_delete_debug(H, node, FALSE))
    /\ UNCHANGED <<pc, cur, victim, swaps, index, pos, trav, other>>

NextDebug == Insert \/ Delete \/ InsertRejected \/ DeleteRejected

SpecDebug == Init /\ [][NextDebug]_vars

\* ------------------------------------------- the operations, loop by loop
\* heap_insert up to the call of heap_fixup
StepInsert ==
    /\ pc = "idle"
    /\ \E node \in Nodes : \E k \in Keys :
         /\ ~Linked(node)
         /\ LET h    == WithKey(H, node, k)
                slot == heap_parent(h)
            IN Becomes(heap_link(h, slot.parent, slot.link, node))
         /\ cur' = node
    /\ pc' = "fixup"
    /\ swaps' = 0
    /\ UNCHANGED <<victim, index, pos, trav, other>>

\* one turn of heap_fixup's loop in heap_insert_node
FixupStep ==
    /\ pc = "fixup"
    /\ IF FixupMoves(H, cur)
       THEN /\ Becomes(FixupSwap(H, cur))
            /\ swaps' = swaps + 1
            /\ UNCHANGED <<pc, cur>>
       ELSE /\ pc' = "idle"
            /\ cur' = NULL
            /\ UNCHANGED <<root, links, key, swaps>>
    /\ UNCHANGED <<victim, index, pos, trav, other>>

\* heap_delete, line 229: heap_remove, and the test of what it returns
StepDelete ==
    /\ pc = "idle"
    /\ \E node \in Nodes :
         /\ Linked(node)
         /\ LET res == heap_remove(H, node)
            IN /\ Becomes(res.heap)
               /\ victim' = node
               /\ cur' = res.rebalance
               /\ pc' = IF res.rebalance # NULL THEN "erase" ELSE "poison"
    /\ swaps' = 0
    /\ UNCHANGED <<index, pos, trav, other>>

\* one turn of heap_erase's sift-down loop
EraseStep ==
    /\ pc = "erase"
    /\ IF EraseMoves(H, cur)
       THEN /\ Becomes(EraseSwap(H, cur))
            /\ swaps' = swaps + 1
            /\ UNCHANGED pc
       ELSE /\ pc' = "rise"
            /\ UNCHANGED <<root, links, key, swaps>>
    /\ UNCHANGED <<cur, victim, index, pos, trav, other>>

\* one turn of heap_erase's upward loop
RiseStep ==
    /\ pc = "rise"
    /\ IF FixupMoves(H, cur)
       THEN /\ Becomes(FixupSwap(H, cur))
            /\ swaps' = swaps + 1
            /\ UNCHANGED pc
       ELSE /\ pc' = "poison"
            /\ UNCHANGED <<root, links, key, swaps>>
    /\ UNCHANGED <<cur, victim, index, pos, trav, other>>

\* heap_delete, lines 232-234: the three stores into the deleted node; the
\* caller's payload is dead afterwards
PoisonStep ==
    /\ pc = "poison"
    /\ Becomes(WithKey(Poison(H, victim), victim, NoKey))
    /\ pc' = "idle"
    /\ cur' = NULL
    /\ victim' = NULL
    /\ UNCHANGED <<swaps, index, pos, trav, other>>

NextStep ==
    StepInsert \/ FixupStep \/ StepDelete \/ EraseStep \/ RiseStep
        \/ PoisonStep

\* the program is sequential: a loop that can take a turn takes it
SpecStep ==
    /\ Init
    /\ [][NextStep]_vars
    /\ WF_vars(FixupStep)
    /\ WF_vars(EraseStep)
    /\ WF_vars(RiseStep)
    /\ WF_vars(PoisonStep)

\* ------------------------------- deletes from a heap of MaxNodes + 1 records
\* an empty root and records that were never linked
EmptyOver(S) ==
    [root  |-> [node |-> NULL, count |-> 0],
     links |-> [n \in S |->
                  [parent |-> Uninit, left |-> Uninit, right |-> Uninit]],
     key   |-> [n \in S |-> NoKey]]

\* the heap after heap_insert of the records 1..i with the payloads ks
RECURSIVE Built(_, _)
Built(ks, i) ==
    IF i = 0 THEN EmptyOver(DOMAIN ks)
    ELSE heap_insert(WithKey(Built(ks, i - 1), i, ks[i]), i)

\* the caller has inserted MaxNodes + 1 records, of any payloads
InitErase ==
    /\ \E ks \in [1..(MaxNodes + 1) -> Keys] :
         LET h == Built(ks, MaxNodes + 1)
         IN /\ root = h.root
            /\ links = h.links
            /\ key = h.key
    /\ pc = "idle"
    /\ cur = NULL
    /\ victim = NULL
    /\ swaps = 0
    /\ index = 0
    /\ pos = NULL
    /\ trav = NoTrav
    /\ other = [node |-> NULL, count |-> 0]

NextErase == StepDelete \/ EraseStep \/ RiseStep \/ PoisonStep

SpecErase == InitErase /\ [][NextErase]_vars

\* ============================================================= properties
\* What the structure is, read off the links alone (not through Navigator)
\* x points to a record (not NULL, a sentinel or garbage)
IsNode(h, x) == x \in DOMAIN h.links

\* the nodes reachable below x through left/right links
RECURSIVE Below(_, _, _)
Below(h, x, fuel) ==
    IF ~IsNode(h, x) \/ fuel = 0 THEN {}
    ELSE {x} \cup Below(h, h.links[x].left, fuel - 1)
             \cup Below(h, h.links[x].right, fuel - 1)

Reach(h) == Below(h, h.root.node, MaxNodes + 1)

\* the pairs <<rank, node>>: the root has rank 1, the children of rank r
\* have ranks 2r and 2r + 1
RECURSIVE RanksBelow(_, _, _, _)
RanksBelow(h, x, r, fuel) ==
    IF ~IsNode(h, x) \/ fuel = 0 THEN {}
    ELSE {<<r, x>>} \cup RanksBelow(h, h.links[x].left, 2 * r, fuel - 1)
                    \cup RanksBelow(h, h.links[x].right, 2 * r + 1, fuel - 1)

Ranked(h) == RanksBelow(h, h.root.node, 1, MaxNodes + 1)

OccupiedRanks(h) == {rn[1] : rn \in Ranked(h)}

\* the node at level-order position r, NULL when there is none
NodeAtRank(h, r) ==
    IF \E rn \in Ranked(h) : rn[1] = r
    THEN (CHOOSE rn \in Ranked(h) : rn[1] = r)[2]
    ELSE NULL

LinkedSet == {n \in Nodes : Linked(n)}

\* a delete has poisoned this record and it has not been linked again
Poisoned(n) == links[n].parent = POISON_HPNODE3

ShapeInvariant == OccupiedRanks(H) = 1..root.count

ShapeWitness ==
    /\ root.count = MaxNodes - 1
    /\ \E n \in Nodes : Poisoned(n)
    /\ OccupiedRanks(H) = 1..(MaxNodes - 1)

\* ---------------------------------------------------------------------- C3
CountMatches ==
    /\ root.count = Cardinality(Reach(H))
    /\ (root.count = 0) <=> (root.node = NULL)

CountStep ==
    /\ (\E n \in Nodes : ~Linked(n) /\ Linked(n)') =>
           root'.count = root.count + 1
    /\ (\E n \in Nodes : Linked(n) /\ ~Linked(n)') =>
           root'.count = root.count - 1

\* C3: count equals the number of nodes reachable from root.node, is 0
\* exactly when root.node is NULL, rises by 1 on every insert and falls by
\* 1 on every delete.
CountConsistency == [] CountMatches /\ [][CountStep]_vars

\* the only node, which is also the last in level order, has been deleted
CountWitness ==
    /\ root.count = 0
    /\ root.node = NULL
    /\ \E n \in Nodes : Poisoned(n)
    /\ \E n \in Nodes : links[n].parent = Uninit

\* ---------------------------------------------------------------------- C4
\* the caller's drain loop (benchmark.c, lines 115-119): while (root.count)
\* record the root's key and heap_delete the root
RECURSIVE Drain(_, _)
Drain(h, fuel) ==
    IF h.root.count = 0 \/ fuel = 0 \/ ~IsNode(h, h.root.node) THEN <<>>
    ELSE <<h.key[h.root.node]>> \o
         Drain(heap_delete(h, h.root.node), fuel - 1)

NonDecreasing(seq) ==
    \A i \in 1..(Len(seq) - 1) : seq[i] <= seq[i + 1]

Occurrences(seq, k) == Cardinality({i \in 1..Len(seq) : seq[i] = k})

\* the scenario of the design document: 5,3,8,1,4,7,9 inserted in turn
ScenarioKeys == <<5, 3, 8, 1, 4, 7, 9>>

ScenarioEmpty ==
    [root  |-> [node |-> NULL, count |-> 0],
     links |-> [n \in 1..Len(ScenarioKeys) |->
                  [parent |-> Uninit, left |-> Uninit, right |-> Uninit]],
     key   |-> [n \in 1..Len(ScenarioKeys) |-> NoKey]]

\* the heap after the first i keys of the scenario
RECURSIVE ScenarioHeap(_)
ScenarioHeap(i) ==
    IF i = 0 THEN ScenarioEmpty
    ELSE heap_insert(WithKey(ScenarioHeap(i - 1), i, ScenarioKeys[i]), i)

MinOfFirst(i) ==
    CHOOSE m \in {ScenarioKeys[j] : j \in 1..i} :
        \A j \in 1..i : m <= ScenarioKeys[j]

ScenarioHolds ==
    LET full  == ScenarioHeap(Len(ScenarioKeys))
        after == heap_delete(full, full.root.node)
    IN /\ \A i \in 1..Len(ScenarioKeys) :
            ScenarioHeap(i).key[ScenarioHeap(i).root.node] = MinOfFirst(i)
       /\ after.key[after.root.node] = 3
       /\ Drain(full, Len(ScenarioKeys) + 1) = <<1, 3, 4, 5, 7, 8, 9>>

\* C4: after every insert and delete root.node holds a minimum key of the
\* linked nodes, and draining the heap root by root yields every linked
\* key, in non-decreasing order; 5,3,8,1,4,7,9 drains as 1,3,4,5,7,8,9.
MinimumAtRoot ==
    /\ \A n \in LinkedSet : key[root.node] <= key[n]
    /\ LET out == Drain(H, MaxNodes + 1)
       IN /\ NonDecreasing(out)
          /\ Len(out) = Cardinality(LinkedSet)
          /\ \A k \in Keys :
                Occurrences(out, k) =
                    Cardinality({n \in LinkedSet : key[n] = k})
    /\ ScenarioHolds

\* a full heap holding both keys whose drain is not constant
MinimumWitness ==
    /\ root.count = MaxNodes
    /\ \E n \in LinkedSet : key[root.node] < key[n]
    /\ \E n \in Nodes : n # root.node /\ key[n] = key[root.node]
    /\ Drain(H, MaxNodes + 1)[1] < Drain(H, MaxNodes + 1)[MaxNodes]

\* ---------------------------------------------------------------------- C5
\* C5: once every inserted node has been deleted, in whatever order, the
\* root is empty: root.node = NULL and root.count = 0.
RoundTrip ==
    LinkedSet = {} => root.node = NULL /\ root.count = 0

\* every record has been inserted and deleted
RoundTripWitness ==
    /\ LinkedSet = {}
    /\ \A n \in Nodes : Poisoned(n)
    /\ root.node = NULL
    /\ root.count = 0

\* ---------------------------------------------------------------------- C6
\* the nodes at ranks a..b in level order, read off the links
RankSeq(h, a, b) ==
    LET ranked == Ranked(h)
    IN [i \in 1..(IF b >= a THEN b - a + 1 ELSE 0) |->
           IF \E rn \in ranked : rn[1] = a + i - 1
           THEN (CHOOSE rn \in ranked : rn[1] = a + i - 1)[2]
           ELSE NULL]

FindCorrect ==
    trav.kind = "find" =>
        IF 1 <= index /\ index <= root.count
        THEN /\ pos \in LinkedSet
             /\ <<index, pos>> \in Ranked(H)
        ELSE pos = NULL

\* the scenario: on a one-node heap find(1) is the node, find(2) is NULL
FindScenario ==
    root.count = 1 =>
        /\ heap_find(H, 1) = root.node
        /\ heap_find(H, 1) \in Nodes
        /\ heap_find(H, 2) = NULL
        /\ heap_find(H, 0) = NULL

\* C8: heap_find(root, r) is the node at level-order rank r when
\* 1 <= r <= count, and NULL when r = 0, r > count or the root is empty;
\* on a one-node heap find(1) is that node and find(2) is NULL.
DirectLookup == FindCorrect /\ FindScenario

\* the lookup of the last rank of a heap of several levels
FindWitness ==
    /\ trav.kind = "find"
    /\ index = MaxNodes
    /\ root.count = MaxNodes
    /\ pos = links[links[root.node].left].right

\* ---------------------------------------------------------------------- C9
Sentinels(n) ==
    /\ links[n].left = POISON_HPNODE1
    /\ links[n].right = POISON_HPNODE2
    /\ links[n].parent = POISON_HPNODE3
    /\ links[n].left # links[n].right
    /\ links[n].left # links[n].parent
    /\ links[n].right # links[n].parent
    /\ \A f \in {"left", "right", "parent"} :
          links[n][f] # NULL /\ links[n][f] \notin Nodes

NeverLinked(n) ==
    links[n] = [parent |-> Uninit, left |-> Uninit, right |-> Uninit]

\* a record outside the heap holds the sentinels, or was never linked, and
\* the sentinels stay until it is inserted again
DetachedState ==
    \A n \in Nodes : ~Linked(n) => Sentinels(n) \/ NeverLinked(n)

DetachedStep ==
    \A n \in Nodes : (Linked(n) /\ ~Linked(n)') =>
        /\ links'[n].left = POISON_HPNODE1
        /\ links'[n].right = POISON_HPNODE2
        /\ links'[n].parent = POISON_HPNODE3
        /\ Cardinality({links'[n].left, links'[n].right,
                        links'[n].parent}) = 3
        /\ \A f \in {"left", "right", "parent"} :
              links'[n][f] # NULL /\ links'[n][f] \notin Nodes

\* C9: after heap_delete returns, the deleted node's left, right and parent
\* hold POISON_HPNODE1/2/3: pairwise distinct, not NULL, not a node;
\* whatever the node's position was.
DetachedSentinels == [] DetachedState /\ [][DetachedStep]_vars

\* an interior node deleted from a heap of several levels: its sentinels,
\* beside a record that was never linked
SentinelWitness ==
    /\ root.count = MaxNodes - 2
    /\ \E n \in Nodes : ~Linked(n) /\ Sentinels(n)
    /\ \E n \in Nodes : ~Linked(n) /\ NeverLinked(n)

\* --------------------------------------------------------------------- C10
\* the number of parent links between a node and the root
RECURSIVE DepthOf(_, _, _)
DepthOf(h, x, fuel) ==
    IF fuel = 0 THEN 0
    ELSE IF ~IsNode(h, x) THEN 0
    ELSE IF h.links[x].parent = NULL THEN 0
    ELSE 1 + DepthOf(h, h.links[x].parent, fuel - 1)

Depth(h, x) == DepthOf(h, x, 2 * MaxNodes)

\* the height of a complete tree of count nodes, in links
Height(h) == IF h.root.count = 0 THEN 0 ELSE fls(h.root.count) - 1

\* inside an operation the moving node is a node of the tree, and the swaps
\* done so far are at most the height of the tree
LoopBounded ==
    /\ swaps <= Height(H)
    /\ pc # "idle" => ENABLED NextStep
    /\ pc \in {"fixup", "erase", "rise"} =>
          /\ cur \in Nodes
          /\ Depth(H, cur) <= Height(H)

\* every turn that stays in a loop moves the node one level: up in
\* heap_fixup and in the upward loop of heap_erase, down in its sift-down
LoopVariant ==
    LET before == Depth(H, cur)
        after  == Depth(Heap(root', links', key'), cur)
    IN /\ (pc = "fixup" /\ pc' = "fixup") => after = before - 1
       /\ (pc = "rise" /\ pc' = "rise") => after = before - 1
       /\ (pc = "erase" /\ pc' = "erase") => after = before + 1
       /\ (pc = "erase" /\ pc' = "rise") => swaps' = swaps
       /\ pc' # pc \/ pc = "idle" \/ swaps' = swaps + 1

RejectionNoOp ==
    [][(InsertRejected \/ DeleteRejected) =>
           /\ pc' = "idle"
           /\ root' = root
           /\ \A n \in Reach(H) : links'[n] = links[n]]_vars

\* --------------------------------------------------------------------- C12
\* the promoted node, inside heap_erase: it sinks only below a strictly
\* smaller child and rises only above a strictly greater parent; once it
\* has sunk it does not rise; heap_delete ends only after both checks
PromotedMove ==
    /\ (pc = "erase" /\ pc' = "erase") =>
          /\ \E c \in {links[cur].left, links[cur].right} \ {NULL} :
                /\ key[c] < key[cur]
                /\ links'[cur].parent = c
          /\ Depth(Heap(root', links', key'), cur) = Depth(H, cur) + 1
    /\ (pc = "rise" /\ pc' = "rise") =>
          /\ key[cur] < key[links[cur].parent]
          /\ links[cur].parent \in {links'[cur].left, links'[cur].right}
          /\ Depth(Heap(root', links', key'), cur) = Depth(H, cur) - 1
          /\ ~EraseMoves(Heap(root', links', key'), cur)
    /\ (pc = "erase" /\ pc' = "rise" /\ swaps > 0) =>
          ~FixupMoves(Heap(root', links', key'), cur)
    /\ (pc = "erase") => pc' \in {"erase", "rise"}
    /\ (pc = "rise") => pc' \in {"rise", "poison"}
    /\ (pc = "poison") => pc' = "idle"
    /\ (pc = "idle" /\ pc' = "erase") =>
          /\ victim' # NodeAtRank(H, root.count)
          /\ cur' = NodeAtRank(H, root.count)
          /\ links'[cur'].parent = links[victim'].parent
          /\ \E r \in 1..root.count :
                /\ <<r, victim'>> \in Ranked(H)
                /\ <<r, cur'>> \in Ranked(Heap(root', links', key'))

\* the order holds again when the delete has returned
OrderRestored ==
    pc = "idle" =>
        \A n \in Reach(H) :
            links[n].parent # NULL => key[links[n].parent] <= key[n]

\* C12: when heap_delete removes a node that is not the last in level
\* order, the promoted last node takes its slot and is checked against its
\* children (sift-down) and against its new parent (sift-up); it sinks only
\* if a child is strictly less, rises only if strictly less than its
\* parent, and never does both in one delete.
TwoDirections == [] OrderRestored /\ [][PromotedMove]_vars

\* the promoted node has risen above the parent of the slot it was moved to
TwoDirectionsWitness ==
    /\ pc = "rise"
    /\ swaps = 1
    /\ victim # NULL
    /\ links[victim].parent # NULL
    /\ Depth(H, cur) = 1
    /\ key[cur] < key[links[victim].parent]

\* --------------------------------------------------------------------- C13
\* the content of the link heap_parent returns
SlotContent(h, slot) ==
    IF slot.link = 0 THEN h.root.node
    ELSE IF slot.link = 1 THEN h.links[slot.parent].left
    ELSE h.links[slot.parent].right

\* before a heap_insert: the link heap_parent finds is that of rank
\* count + 1, and it is empty
SlotFound ==
    pc = "idle" =>
        LET rank == root.count + 1
            slot == heap_parent(H)
        IN /\ SlotContent(H, slot) = NULL
           /\ root.count = 0 => slot.parent = NULL /\ slot.link = 0
           /\ root.count >= 1 =>
                 /\ slot.parent \in Reach(H)
                 /\ slot.parent = NodeAtRank(H, rank \div 2)
                 /\ slot.link = (IF rank % 2 = 0 THEN 1 ELSE 2)

\* after heap_link, before any turn of heap_fixup: the new node is at rank
\* count, a leaf below the node at rank count / 2
SlotLinked ==
    (pc = "fixup" /\ swaps = 0) =>
        LET rank == root.count
            p    == links[cur].parent
        IN /\ <<rank, cur>> \in Ranked(H)
           /\ links[cur].left = NULL
           /\ links[cur].right = NULL
           /\ rank = 1 => p = NULL /\ root.node = cur
           /\ rank > 1 =>
                 /\ p = NodeAtRank(H, rank \div 2)
                 /\ rank % 2 = 0 => links[p].left = cur
                 /\ rank % 2 = 1 => links[p].right = cur

\* C13: heap_insert on a heap of c nodes links the new node, before any
\* sift-up, at rank c + 1: at root.node with parent NULL when c = 0, else
\* below the node at rank (c + 1) / 2, left when c + 1 is even and right
\* when it is odd; that link is empty beforehand and the new node starts
\* with left = right = NULL.
InsertionSlot == SlotFound /\ SlotLinked

\* a node linked as the right child of rank (count - 1) / 2, two levels
\* below the root, which heap_fixup is about to move
InsertionSlotWitness ==
    /\ pc = "fixup"
    /\ swaps = 0
    /\ root.count >= 4
    /\ root.count % 2 = 1
    /\ links[links[cur].parent].right = cur
    /\ links[links[cur].parent].left # NULL
    /\ links[links[cur].parent].parent = root.node
    /\ FixupMoves(H, cur)

\* --------------------------------------------------------------------- C14
\* the links of p with the one that holds n emptied
WithoutChild(l, n) ==
    [l EXCEPT !.left  = IF l.left = n THEN NULL ELSE l.left,
              !.right = IF l.right = n THEN NULL ELSE l.right]

LastUnlinked ==
    /\ (pc = "idle" /\ pc' = "poison") =>
          LET n     == victim'
              p     == links[n].parent
              after == Heap(root', links', key')
          IN /\ n = NodeAtRank(H, root.count)
             /\ cur' = NULL
             /\ swaps' = 0
             /\ root'.count = root.count - 1
             /\ root'.node = (IF p = NULL THEN NULL ELSE root.node)
             /\ p # NULL => /\ n \in {links[p].left, links[p].right}
                            /\ links'[p] = WithoutChild(links[p], n)
             /\ \A m \in Reach(H) \ {n, p} : links'[m] = links[m]
             /\ Ranked(after) = Ranked(H) \ {<<root.count, n>>}
             /\ key' = key
    /\ (pc = "idle" /\ victim' = NodeAtRank(H, root.count)
                    /\ victim' # NULL) => pc' = "poison"
    /\ (pc = "poison" /\ cur = NULL) =>
          /\ swaps' = 0
          /\ pc' = "idle"
          /\ root' = root
          /\ \A m \in Reach(H) : links'[m] = links[m] /\ key'[m] = key[m]

\* C14: heap_delete of the node at rank root.count only unlinks it: the
\* child link of its parent, or root.node when it is the only node, becomes
\* NULL; every other linked node keeps its rank and its links but for that
\* one link; no swap takes place.
LastNodeDelete == [][LastUnlinked]_vars

\* heap_remove has unlinked the last node from its parent, the root, which
\* keeps its other child; the sentinels are about to be written
LastNodeDeleteWitness ==
    /\ pc = "poison"
    /\ cur = NULL
    /\ swaps = 0
    /\ root.count = MaxNodes - 3
    /\ links[victim].parent = root.node
    /\ links[root.node].left \in Nodes
    /\ links[root.node].right = NULL
    /\ \E n \in Nodes : Poisoned(n)

\* --------------------------------------------------------------------- C15
\* what the call returned is the node at the rank the cursor now holds
CursorResolved ==
    /\ pos = (IF 1 <= index /\ index <= root.count
              THEN NodeAtRank(H, index) ELSE NULL)
    /\ pos # NULL => pos \in LinkedSet
    /\ root.node = NULL => pos = NULL

CursorState ==
    trav.kind = "level" =>
        /\ trav.call = "first" => index = 1
        /\ trav.call = "next" =>
              index = (trav.cursor + 1) % Pow2(CursorBits)
        /\ CursorResolved
        /\ (trav.null /\ ~trav.wrapped) => pos = NULL

CursorCall ==
    (trav'.kind = "level" /\ trav' # trav) =>
        /\ root' = root
        /\ links' = links
        /\ key' = key

RanksOf(h, n) == {rn[1] : rn \in {x \in Ranked(h) : x[2] = n}}

\* C16: between operations root.node is NULL or has a NULL parent; a
\* non-NULL left or right of a linked node n is a node whose parent is n;
\* left and right differ unless both are NULL; and the links form a tree:
\* no node is reached from root.node along two paths.
LinkConsistency ==
    pc = "idle" =>
        /\ root.node = NULL \/
              (root.node \in Nodes /\ links[root.node].parent = NULL)
        /\ \A n \in Reach(H) :
              /\ links[n].left # NULL =>
                    /\ links[n].left \in Nodes
                    /\ links[links[n].left].parent = n
              /\ links[n].right # NULL =>
                    /\ links[n].right \in Nodes
                    /\ links[links[n].right].parent = n
              /\ links[n].left = links[n].right => links[n].left = NULL
              /\ links[n].parent # NULL =>
                    /\ links[n].parent \in Reach(H)
                    /\ n \in {links[links[n].parent].left,
                               links[links[n].parent].right}
              /\ Cardinality(RanksOf(H, n)) = 1
        /\ Cardinality(Ranked(H)) = Cardinality(Reach(H))

\* the operation that has just returned swapped the root with its only
\* child
LinkConsistencyWitness ==
    /\ pc = "idle"
    /\ swaps = 1
    /\ root.count = 2
    /\ links[root.node].left \in Nodes
    /\ links[root.node].right = NULL
    /\ key[root.node] < key[links[root.node].left]
    /\ \E n \in Nodes : Poisoned(n)

\* --------------------------------------------------------------------- C17
\* the nodes reached from root.node against the records the caller has
\* inserted and not deleted; inside heap_delete the victim alone is gone
MembersState ==
    /\ pc \in {"idle", "fixup"} => Reach(H) = LinkedSet
    /\ pc = "fixup" => cur \in Reach(H)
    /\ pc \in {"erase", "rise", "poison"} =>
          /\ victim \in LinkedSet
          /\ Reach(H) = LinkedSet \ {victim}
          /\ cur # NULL => cur \in Reach(H)
    /\ root.count = Cardinality(Reach(H))

\* heap_insert adds the given node, heap_delete removes the given node, and
\* the sift loops add and remove nothing
MembersStep ==
    LET after == Reach(Heap(root', links', key'))
    IN /\ (pc = "idle" /\ pc' = "fixup") =>
             /\ cur' \notin Reach(H)
             /\ after = Reach(H) \cup {cur'}
             /\ LinkedSet' = LinkedSet \cup {cur'}
       /\ (pc = "idle" /\ pc' \in {"erase", "poison"}) =>
             /\ victim' \in Reach(H)
             /\ after = Reach(H) \ {victim'}
       /\ (pc = "poison") =>
             /\ LinkedSet' = LinkedSet \ {victim}
             /\ after = Reach(H)
       /\ (pc # "idle" /\ pc' # "idle") => after = Reach(H)

\* C17: the set of nodes reachable from root.node is exactly the set of
\* nodes inserted and not yet deleted; heap_insert adds precisely the given
\* node and heap_delete removes precisely the given node, never the
\* promoted last node or any other.
Membership == [] MembersState /\ [][MembersStep]_vars

\* heap_delete of an inner node: the promoted last node has been swapped
\* and is still linked, the victim alone is gone
MembershipWitness ==
    /\ pc = "poison"
    /\ cur \in Reach(H)
    /\ swaps = 1
    /\ victim \notin Reach(H)
    /\ root.count = MaxNodes - 1
    /\ Reach(H) = LinkedSet \ {victim}

\* --------------------------------------------------------------------- C18
\* the rank at which the links lead to n
RankOf(h, n) == CHOOSE r \in RanksOf(h, n) : TRUE

\* the ranks on the path from the root to rank r
RECURSIVE PathRanks(_)
PathRanks(r) == IF r <= 1 THEN {r} ELSE {r} \cup PathRanks(r \div 2)

\* inside heap_insert the new node is on the path from the root to the
\* slot of rank count, as many levels above the slot as swaps were made
OnPath ==
    pc = "fixup" =>
        /\ RankOf(H, cur) \in PathRanks(root.count)
        /\ RankOf(H, cur) = root.count \div Pow2(swaps)

InsertStep ==
    LET after == Heap(root', links', key')
    IN /\ (pc = "idle" /\ pc' = "fixup") =>
             Ranked(after) = Ranked(H) \cup {<<root.count + 1, cur'>>}
       /\ (pc = "fixup" /\ pc' = "fixup") =>
             LET r == RankOf(H, cur)
                 p == links[cur].parent
             IN /\ key[cur] < key[p]
                /\ <<r \div 2, p>> \in Ranked(H)
                /\ Ranked(after) =
                      (Ranked(H) \ {<<r, cur>>, <<r \div 2, p>>})
                          \cup {<<r \div 2, cur>>, <<r, p>>}
       /\ (pc = "fixup" /\ pc' = "idle") =>
             /\ Ranked(after) = Ranked(H)
             /\ links[cur].parent = NULL \/
                   key[links[cur].parent] <= key[cur]

\* C18: heap_insert changes the rank only of nodes on the path from the
\* root to the slot of rank count + 1: the new node ends at a rank of that
\* path, each node it passed moves down one level along the path, the
\* sift-up stops at the first ancestor whose key is not strictly greater
\* (equal keys cause no swap), and every node off the path keeps its rank.
InsertFrame == [] OnPath /\ [][InsertStep]_vars

\* the new node has passed one node and rests below a parent of equal key
InsertFrameWitness ==
    /\ pc = "fixup"
    /\ swaps = 1
    /\ root.count = MaxNodes
    /\ links[cur].parent = root.node
    /\ key[links[cur].parent] = key[cur]
    /\ ~FixupMoves(H, cur)
    /\ links[links[cur].left].left = NULL
    /\ key[links[cur].left] > key[cur]

\* --------------------------------------------------------------------- C19
\* the invariants of one root: order, shape, count
HeapInvariants(h) ==
    /\ \A n \in Reach(h) :
          h.links[n].parent # NULL =>
              h.key[h.links[n].parent] <= h.key[n]
    /\ OccupiedRanks(h) = 1..h.root.count
    /\ h.root.count = Cardinality(Reach(h))
    /\ (h.root.count = 0) <=> (h.root.node = NULL)

\* every link reached from the root is NULL or a node of that root: not a
\* sentinel, not what an unwritten record holds, not a deleted record, not
\* a record of the other root
CleanLinks(h) ==
    /\ h.root.node \in {NULL} \cup Reach(h)
    /\ \A n \in Reach(h) :
          /\ Linked(n)
          /\ \A f \in {"parent", "left", "right"} :
                /\ h.links[n][f] \in {NULL} \cup Reach(h)
                /\ h.links[n][f] \notin
                      {POISON_HPNODE1, POISON_HPNODE2, POISON_HPNODE3, Uninit}

\* C19: a node heap_delete has removed can be inserted again, into the same
\* root or into another one, and all heap invariants hold afterwards;
\* between operations no link reachable from a root holds a sentinel or
\* refers to a deleted node: heap_link overwrites the three link fields.
NodeReuse ==
    /\ HeapInvariants(H)
    /\ HeapInvariants(OtherHeap)
    /\ CleanLinks(H)
    /\ CleanLinks(OtherHeap)
    /\ Reach(H) \cap Reach(OtherHeap) = {}
    /\ Reach(H) \cup Reach(OtherHeap) = LinkedSet

\* the record deleted from root is linked in the other root, as a child of
\* its top node; every record has been linked at least once and one of
\* them lies deleted
NodeReuseWitness ==
    /\ victim \in Reach(OtherHeap)
    /\ other.count >= 3
    /\ root.count >= 1
    /\ links[victim].parent = other.node
    /\ \A n \in Nodes : ~NeverLinked(n)
    /\ \E n \in Nodes : Poisoned(n)

====
